---------------------------- MODULE Spec2Model ----------------------------
(***************************************************************************)
(* Verification model of the OCR tool's incremental processing ledger.     *)
(*                                                                         *)
(* The repository holds three generations of the pipeline, each with its   *)
(* own ledger; each is modelled as its own specification over a shared     *)
(* input folder:                                                           *)
(*   SpecV1   src/batch_processor.py + src/database.py (sqlite3)           *)
(*            + src/image_processor.py                                     *)
(*   SpecCore src/core/batch_processor.py + src/database/database.py       *)
(*            (peewee) + src/core/image_optimizer.py                       *)
(*   SpecData src/data/storage_manager.py + src/data/database.py           *)
(*            (sqlalchemy) + src/core/image_workflow.py                    *)
(* The analysis of one OCR response (furigana detection, confidence        *)
(* markers, the image section of the report) is the specification          *)
(*   SpecText src/text_analyzer.py, src/core/text_analyzer.py,             *)
(*            src/core/output_generator.py                                 *)
(***************************************************************************)
EXTENDS Integers, Sequences, FiniteSets, TLC

(***************************************************************************)
(* Bounds of the model.                                                    *)
(***************************************************************************)
NumContents == 2

MaxRuns == 2

MaxParagraphs == 2

MaxCalls == 2

MaxSizeMb == 3

(***************************************************************************)
(* The input folder.  A path is (directory, stem, extension); Folder lists  *)
(* the image files in the order discovery yields them: the files of a      *)
(* directory sorted by name, then its sub-directories.                     *)
(***************************************************************************)
Folder ==
    << [dir |-> "", stem |-> "a", ext |-> "jpg"],
       [dir |-> "", stem |-> "a", ext |-> "png"] >>

Paths == {Folder[i] : i \in DOMAIN Folder}

Contents == 1..NumContents

\* No file at a destination.
NoFile == 0

\* Python's None, for the string- and date-valued fields.
None == "None"

\* An Image model with no primary key yet (id = None).
NoId == 0

\* The empty string, for the path-valued fields.
EmptyPath == [dir |-> "", stem |-> "", ext |-> ""]

\* The result of a lookup: the empty sequence for None, else the one value.
Found(x) == x # << >>

VARIABLES
    files,          \* input folder: path -> content of the file
    runs,           \* history: number of runs started
    delta,          \* history: the paths whose content differed, at the start of the
                    \*          current/last run, from the start of the run before it
    prev_outcome,   \* history: how the run before the current/last one ended
    outcome,        \* "none" | "running" | "returned" | "returned_false" | "raised" | "interrupted"
    \* ---- generation 1: OCRBatchProcessor ----
    v1_pc,          \* "idle" | "stage2" | "stage3" | "load_existing"
    v1_i,           \* loop index of the running stage
    v1_image_files, \* discovered files of the run
    v1_to_process,  \* images_to_process
    v1_existing,    \* existing_images
    v1_all_results, \* all_results (relative paths whose vision_response was obtained)
    v1_attempted,   \* history: the items the OCR call was made for in the current/last run
    v1_errors,      \* error_handler.failed_images (paths)
    v1_images,      \* result/images: destination -> content of the optimized copy
    v1_table,       \* rows of table processed_images
    v1_ocr_log,     \* history: the successful OCR calls, in order, each with its run
    v1_report,      \* result/ocr_output.txt: None or the sequence of its sections
    \* ---- generation 2: BatchProcessor (core) ----
    c_pc,           \* "idle" | "scan" | "optimize" | "save"
    c_i,            \* loop index of the running phase
    c_discovered,   \* discovered_files
    c_all_images,   \* all_images
    c_to_process,   \* images_to_process
    c_processed,    \* processed_images
    c_selected,     \* history: the paths the current/last run queued for processing
    c_images,       \* result/images: destination -> content of the optimized copy
    c_db,           \* rows of table images (ImageRecord)
    c_next_id,      \* next primary key
    \* ---- generation 3: StorageManager (data) ----
    d_pc,           \* "idle" | "discover" | "optimize" | "optimizing"
    d_i,            \* loop index of the running phase
    d_image_files,  \* image_files of discover_and_save_images
    d_images_list,  \* images_list (of discovery, then of optimize_images_batch)
    d_selected,     \* history: the ids optimize_image was called for in the current/last run
    d_output,       \* result/optimized_images: destination -> content
    d_db,           \* rows of table images (ImageModel)
    d_next_id,      \* next primary key
    \* ---- text analysis of one image ----
    t_impl,         \* which TextAnalyzer runs: "text_analyzer" | "core"
    t_image,        \* the Image model given to analyze_images, and its cache file
    t_paragraphs,   \* the paragraphs of the response, pages and blocks flattened
    t_pc,           \* "idle" | "load" | "detect" | "process" | "section" | "done" | "skipped"
    t_raised,       \* an exception left _detect_furigana_refined
    t_regular,      \* regular_paragraphs, as positions in t_paragraphs
    t_furigana,     \* furigana_paragraphs, as positions in t_paragraphs
    t_chars,        \* history: the script predicates' answers, per character examined
    t_symbols,      \* history: per symbol rendered, its confidence, level and text
    t_processed,    \* processed_regular and processed_furigana
    t_lines,        \* the lines of the image section
    \* ---- the OCR step: VisionProcessor and the saving of the responses ----
    g_pc,           \* "idle" | "process" | "save" | "done"
    g_i,            \* loop index
    g_images,       \* the Image containers, in the order of the list given
    g_given,        \* history: the containers as they were given
    g_processed,    \* processed_images, as positions in g_images
    g_calls,        \* history: per image of the loop, "skipped" | "ok" | "raises"
    g_folder,       \* vision_responses: response file -> the response it holds
    g_db,           \* rows of table images (ImageModel)
    \* ---- the formatters ----
    f_pc,           \* "idle" | "ready"
    f_clock,        \* the time of day, in seconds
    f_results,      \* the list of analysed results the report is made of
    f_lines,        \* the list of lines build_image_section is given
    f_calls,        \* history: the calls made, each with its output
    f_file,         \* result/ocr_output.txt
    \* ---- retrying the failed images ----
    r_db,           \* rows of table images (ImageModel)
    r_output,       \* optimized_images: destination -> content
    r_log,          \* history: per call of retry_failed_images, the rows before and after
    \* ---- the size-reduction loop of JapaneseOCRProcessor.optimize_image ----
    q_pc,           \* "idle" | "loop" | "returned"
    q_max_size_mb,  \* the parameter max_size_mb
    q_quality,      \* the local quality
    q_size_mb,      \* size_mb of the last encoding
    q_iterations,   \* history: the number of iterations begun
    q_encoded,      \* history: the qualities the image was encoded with
    \* ---- two overlapping runs on one database ----
    w_pc,           \* per run: "idle" | "start" | "queued" | "processed" | "returned" | "raised"
    w_image,        \* per run: the Image model it queued, if any
    w_db,           \* rows of table images (ImageRecord)
    w_next_id       \* next primary key

envvars == << files, runs, delta, prev_outcome, outcome >>

v1vars == << v1_pc, v1_i, v1_image_files, v1_to_process, v1_existing, v1_all_results,
             v1_attempted, v1_errors, v1_images, v1_table, v1_ocr_log, v1_report >>

corevars == << c_pc, c_i, c_discovered, c_all_images, c_to_process, c_processed,
              c_selected, c_images, c_db, c_next_id >>

datavars == << d_pc, d_i, d_image_files, d_images_list, d_selected, d_output, d_db,
              d_next_id >>

textvars == << t_impl, t_image, t_paragraphs, t_pc, t_raised, t_regular, t_furigana,
              t_chars, t_symbols, t_processed, t_lines >>

visionvars == << g_pc, g_i, g_images, g_given, g_processed, g_calls, g_folder, g_db >>

formatvars == << f_pc, f_clock, f_results, f_lines, f_calls, f_file >>

retryvars == << r_db, r_output, r_log >>

qualityvars == << q_pc, q_max_size_mb, q_quality, q_size_mb, q_iterations, q_encoded >>

workervars == << w_pc, w_image, w_db, w_next_id >>

auxvars == << visionvars, formatvars, retryvars, qualityvars, workervars >>

vars == << envvars, v1vars, corevars, datavars, textvars, auxvars >>

\* hashlib.sha256 over the file bytes: equal bytes give equal digests, and the
\* modelled contents are few enough that distinct ones give distinct digests.
calculate_file_hash(content) == << "sha256", content >>

\* sorted(iterdir) files first, then sub-directories (all modelled files exist).
discover_images == Folder

\* destination = result/images/<relative path>, a .png suffix replaced by .jpg.
copy_destination(p) == IF p.ext = "png" THEN [p EXCEPT !.ext = "jpg"] ELSE p

Destinations == {copy_destination(p) : p \in Paths}

\* The optimized copy is written only if the destination does not exist yet.
copy_image(images, p, content) ==
    LET d == copy_destination(p)
    IN  IF images[d] = NoFile THEN [images EXCEPT ![d] = content] ELSE images

(***************************************************************************)
(* Generation 1 ledger: table processed_images, UNIQUE(file_path,          *)
(* file_hash).                                                             *)
(***************************************************************************)
\* SELECT status WHERE file_path = ? AND file_hash = ?; result[0] == 'completed'.
is_processed(table, path, hash) ==
    \E r \in table : r.file_path = path /\ r.file_hash = hash /\ r.status = "completed"

\* The lookup the batch processor calls; the row's vision_json_path when the
\* (path, hash) pair was processed successfully, None otherwise.
get_processed_info(table, path, hash) ==
    IF is_processed(table, path, hash)
    THEN LET r == CHOOSE r \in table :
                    r.file_path = path /\ r.file_hash = hash /\ r.status = "completed"
         IN  << [vision_json_path |-> r.vision_json_path] >>
    ELSE << >>

\* add_processed_image builds the statement's parameter tuple before it
\* executes the INSERT OR REPLACE.  The tuple evaluates datetime.now(), and
\* `datetime` is the module bound by `import datetime` (line 1), which has no
\* attribute `now`: the call raises AttributeError and no row is written.
add_processed_image(table, path, filename, hash, json_path, status, error_message) ==
    [raised |-> TRUE, table |-> table]

(***************************************************************************)
(* Environment.  Between two runs the user may change the bytes of any of  *)
(* the files: a run starts on the folder `f`.                              *)
(***************************************************************************)
FilesInit ==
    /\ files \in [Paths -> Contents]
    /\ runs = 0
    /\ delta = {}
    /\ prev_outcome = "none"
    /\ outcome = "none"

StartRun(f) ==
    /\ outcome # "running"
    /\ runs < MaxRuns
    /\ runs = 0 => f = files
    /\ runs' = runs + 1
    /\ files' = f
    /\ delta' = {p \in Paths : f[p] # files[p]}
    /\ prev_outcome' = outcome
    /\ outcome' = "running"

RunGoesOn == UNCHANGED envvars

RunEnds(how) ==
    /\ outcome' = how
    /\ UNCHANGED << files, runs, delta, prev_outcome >>

(***************************************************************************)
(* Generation 1: OCRBatchProcessor.process_folder, one loop iteration per  *)
(* step.                                                                   *)
(***************************************************************************)
V1Init ==
    /\ v1_pc = "idle"
    /\ v1_i = 0
    /\ v1_image_files = << >>
    /\ v1_to_process = << >>
    /\ v1_existing = << >>
    /\ v1_all_results = << >>
    /\ v1_attempted = {}
    /\ v1_errors = << >>
    /\ v1_images = [d \in Destinations |-> NoFile]
    /\ v1_table = {}
    /\ v1_ocr_log = << >>
    /\ v1_report = None

\* Stage 1: discovery, and the set-up of stage 2.
V1Discover(f) ==
    /\ v1_pc = "idle"
    /\ StartRun(f)
    /\ v1_image_files' = discover_images
    /\ v1_to_process' = << >>
    /\ v1_existing' = << >>
    /\ v1_all_results' = << >>
    /\ v1_attempted' = {}
    /\ v1_errors' = << >>
    /\ v1_i' = 1
    /\ v1_pc' = "stage2"
    /\ UNCHANGED << v1_images, v1_table, v1_ocr_log, v1_report >>

\* process_folder is left: its locals are gone.
V1Leave ==
    /\ v1_pc' = "idle"
    /\ v1_i' = 0
    /\ v1_image_files' = << >>
    /\ v1_to_process' = << >>
    /\ v1_existing' = << >>

\* Stage 2, one file: hash, ledger lookup, then reuse or copy.  `io` is what
\* the file system does: "ok", or the hash or the copy raising.
V1Stage2(io) ==
    /\ v1_pc = "stage2"
    /\ LET p == v1_image_files[v1_i]
           h == calculate_file_hash(files[p])
           info == get_processed_info(v1_table, p, h)
           reused == io # "hash_raises" /\ Found(info)
           copied == io = "ok" /\ ~Found(info)
           raised == io = "hash_raises" \/ (io = "copy_raises" /\ ~Found(info))
           existing == IF reused
                       THEN Append(v1_existing,
                                   [relative_path |-> p,
                                    vision_json_path |-> info[1].vision_json_path])
                       ELSE v1_existing
           to_process == IF copied
                         THEN Append(v1_to_process, [relative_path |-> p,
                                                     copied_path |-> copy_destination(p),
                                                     file_hash |-> h])
                         ELSE v1_to_process
           last == v1_i = Len(v1_image_files)
           total_images == Len(to_process) + Len(existing)
       IN  /\ v1_images' = IF copied THEN copy_image(v1_images, p, files[p]) ELSE v1_images
           \* except: error_handler.add_error; the ledger is not written
           /\ v1_errors' = IF raised THEN Append(v1_errors, p) ELSE v1_errors
           /\ IF last /\ total_images = 0
              THEN V1Leave /\ RunEnds("returned_false")
              ELSE /\ v1_existing' = existing
                   /\ v1_to_process' = to_process
                   /\ v1_i' = IF last THEN 1 ELSE v1_i + 1
                   /\ v1_pc' = IF ~last THEN "stage2"
                               ELSE IF to_process = << >> THEN "load_existing"
                               ELSE "stage3"
                   /\ RunGoesOn
                   /\ UNCHANGED v1_image_files
    /\ UNCHANGED << v1_all_results, v1_attempted, v1_table, v1_ocr_log, v1_report >>

\* Stage 3, one new image: the OCR call on the optimized copy, the cache
\* write and the ledger write; on an exception the handler writes a failed
\* row.  An exception of the handler itself leaves process_folder.
V1Stage3(ocr_ok) ==
    /\ v1_pc = "stage3"
    /\ LET item == v1_to_process[v1_i]
           p == item.relative_path
           done == add_processed_image(v1_table, p, p, item.file_hash, p,
                                       "completed", None)
           in_handler == ~ocr_ok \/ done.raised
           failed == add_processed_image(v1_table, p, p, item.file_hash, EmptyPath,
                                         "failed", "error")
           escaped == in_handler /\ failed.raised
           last == v1_i = Len(v1_to_process)
       IN  /\ v1_attempted' = v1_attempted \cup {p}
           /\ v1_ocr_log' = IF ocr_ok
                            THEN Append(v1_ocr_log,
                                        [run |-> runs, relative_path |-> p,
                                         file_hash |-> item.file_hash,
                                         image |-> v1_images[item.copied_path]])
                            ELSE v1_ocr_log
           /\ v1_table' = IF in_handler THEN failed.table ELSE done.table
           /\ v1_all_results' = IF in_handler THEN v1_all_results
                                ELSE Append(v1_all_results, p)
           /\ v1_errors' = IF in_handler THEN Append(v1_errors, p) ELSE v1_errors
           /\ IF escaped
              THEN V1Leave /\ RunEnds("raised")
              ELSE /\ v1_i' = IF last THEN 1 ELSE v1_i + 1
                   /\ v1_pc' = IF last THEN "load_existing" ELSE "stage3"
                   /\ RunGoesOn
                   /\ UNCHANGED << v1_image_files, v1_to_process, v1_existing >>
    /\ UNCHANGED << v1_images, v1_report >>

\* Lines 137-199 (loading cached results, analysis, the report) run only
\* after stage 3 ends without an exception, or with nothing new to process
\* and a reusable row; with the ledger writes above neither happens, so no
\* step of them is reachable and result/ocr_output.txt is never written.

(***************************************************************************)
(* Generation 2 ledger: table images, file_path UNIQUE (peewee).           *)
(***************************************************************************)
\* ImageRecord.get(file_path == ?) through _record_to_image; None if absent.
get_image_by_path(db, path) ==
    IF \E r \in db : r.file_path = path
    THEN << CHOOSE r \in db : r.file_path = path >>
    ELSE << >>

\* save_image: UPDATE ... WHERE id = image.id when the image has an id, else
\* INSERT.  The insert of a second row for a file_path violates the UNIQUE
\* constraint and raises.
save_image(db, next_id, image) ==
    IF image.id # NoId
    THEN [raised |-> FALSE, next_id |-> next_id,
          db |-> {IF r.id = image.id THEN image ELSE r : r \in db}]
    ELSE IF \E r \in db : r.file_path = image.file_path
    THEN [raised |-> TRUE, next_id |-> next_id, db |-> db]
    ELSE [raised |-> FALSE, next_id |-> next_id + 1,
          db |-> db \cup {[image EXCEPT !.id = next_id]}]

\* A status-aware comparison: only a completed entry of the same hash is reused.
same_completed_image(existing_image, file_hash) ==
    existing_image.file_hash = file_hash /\ existing_image.status = "completed"

\* Line 43: the stored hash is compared with the hash of the file.
same_image(existing_image, file_hash) == existing_image.file_hash = file_hash

\* Lines 54-60: a new Image model.
new_image(relative_path, file_hash) ==
    [id |-> NoId, file_path |-> relative_path, optimized_file_path |-> EmptyPath,
     filename |-> [stem |-> relative_path.stem, ext |-> relative_path.ext],
     file_hash |-> file_hash, vision_json_path |-> EmptyPath, status |-> "pending",
     processed_at |-> None, error_message |-> None]

\* Lines 49-50: the record of a file whose hash changed.
requeued_image(existing_image, file_hash) ==
    [existing_image EXCEPT !.file_hash = file_hash, !.status = "pending"]

\* ImageOptimizer.optimize_images, the try body for one image (lines 26-35).
optimized_image(image) ==
    [image EXCEPT !.optimized_file_path = copy_destination(image.file_path),
                  !.status = "completed"]

\* ImageOptimizer.optimize_images, the except body for one image (lines 37-41).
failed_image(image) ==
    [image EXCEPT !.status = "failed", !.error_message = "error"]

CoreInit ==
    /\ c_pc = "idle"
    /\ c_i = 0
    /\ c_discovered = << >>
    /\ c_all_images = << >>
    /\ c_to_process = << >>
    /\ c_processed = << >>
    /\ c_selected = {}
    /\ c_images = [d \in Destinations |-> NoFile]
    /\ c_db = {}
    /\ c_next_id = 1

\* BatchProcessor.process_folder up to the scan loop.
CoreDiscover(f) ==
    /\ c_pc = "idle"
    /\ StartRun(f)
    /\ c_discovered' = discover_images
    /\ c_all_images' = << >>
    /\ c_to_process' = << >>
    /\ c_processed' = << >>
    /\ c_selected' = {}
    /\ c_i' = 1
    /\ c_pc' = "scan"
    /\ UNCHANGED << c_images, c_db, c_next_id >>

\* process_folder is left (a return, an exception, an interrupt): its locals
\* are gone.
CoreLeave ==
    /\ c_pc' = "idle"
    /\ c_i' = 0
    /\ c_discovered' = << >>
    /\ c_all_images' = << >>
    /\ c_to_process' = << >>
    /\ c_processed' = << >>

\* The scan loop, one file: hash, lookup by path, reuse or queue.  An
\* exception of the hash leaves process_folder (nothing catches it).
CoreScan(hash_ok) ==
    /\ c_pc = "scan"
    /\ LET p == c_discovered[c_i]
           h == calculate_file_hash(files[p])
           existing_image == get_image_by_path(c_db, p)
           reuse == Found(existing_image) /\ same_image(existing_image[1], h)
           queued == IF Found(existing_image)
                     THEN requeued_image(existing_image[1], h)
                     ELSE new_image(p, h)
           to_process == IF reuse THEN c_to_process ELSE Append(c_to_process, queued)
           last == c_i = Len(c_discovered)
       IN  IF ~hash_ok
           THEN CoreLeave /\ RunEnds("raised") /\ UNCHANGED c_selected
           ELSE /\ c_selected' = IF reuse THEN c_selected ELSE c_selected \cup {p}
                /\ IF last /\ to_process = << >>
                   THEN CoreLeave /\ RunEnds("returned")
                   ELSE /\ c_all_images' = IF reuse
                                           THEN Append(c_all_images, existing_image[1])
                                           ELSE c_all_images
                        /\ c_to_process' = to_process
                        /\ c_i' = IF last THEN 1 ELSE c_i + 1
                        /\ c_pc' = IF last THEN "optimize" ELSE "scan"
                        /\ RunGoesOn
                        /\ UNCHANGED << c_discovered, c_processed >>
    /\ UNCHANGED << c_images, c_db, c_next_id >>

\* ImageOptimizer.optimize_images, one image; `copy_ok` is whether
\* _copy_and_optimize returns or raises.
CoreOptimize(copy_ok) ==
    /\ c_pc = "optimize"
    /\ LET image == c_to_process[c_i]
           last == c_i = Len(c_to_process)
       IN  /\ c_images' = IF copy_ok
                          THEN copy_image(c_images, image.file_path, files[image.file_path])
                          ELSE c_images
           /\ c_processed' = Append(c_processed, IF copy_ok THEN optimized_image(image)
                                                 ELSE failed_image(image))
           /\ c_i' = IF last THEN 1 ELSE c_i + 1
           /\ c_pc' = IF last THEN "save" ELSE "optimize"
    /\ RunGoesOn
    /\ UNCHANGED << c_discovered, c_all_images, c_to_process, c_selected, c_db, c_next_id >>

\* Lines 68-73: one save_image, and after the last the return.
CoreSave ==
    /\ c_pc = "save"
    /\ LET image == c_processed[c_i]
           saved == save_image(c_db, c_next_id, image)
           last == c_i = Len(c_processed)
       IN  /\ c_db' = saved.db
           /\ c_next_id' = saved.next_id
           /\ IF saved.raised THEN CoreLeave /\ RunEnds("raised")
              ELSE IF last THEN CoreLeave /\ RunEnds("returned")
              ELSE /\ c_i' = c_i + 1
                   /\ RunGoesOn
                   /\ UNCHANGED << c_pc, c_discovered, c_all_images, c_to_process,
                                   c_processed >>
    /\ UNCHANGED << c_selected, c_images >>

\* The process is interrupted: what the database and the disk hold stays.
CoreInterrupt ==
    /\ c_pc # "idle"
    /\ CoreLeave
    /\ RunEnds("interrupted")
    /\ UNCHANGED << c_selected, c_images, c_db, c_next_id >>

(***************************************************************************)
(* Generation 3 ledger: table images (sqlalchemy), primary key id; no      *)
(* other column is unique.                                                 *)
(***************************************************************************)
\* The rows in primary-key order (the order of an unordered SELECT).
RECURSIVE ById(_)
ById(rows) ==
    IF rows = {} THEN << >>
    ELSE LET r == CHOOSE x \in rows : \A y \in rows : x.id <= y.id
         IN  << r >> \o ById(rows \ {r})

\* query(Image).filter(Image.file_hash == file_hash).first()
get_image_by_hash(db, file_hash) ==
    LET hit == {r \in db : r.file_hash = file_hash}
    IN  IF hit = {} THEN << >> ELSE << ById(hit)[1] >>

\* query(Image).filter(Image.id == image_id).first()
get_image_by_id(db, image_id) ==
    LET hit == {r \in db : r.id = image_id}
    IN  IF hit = {} THEN << >> ELSE << ById(hit)[1] >>

\* query(Image).filter(Image.status == status).all()
get_images_by_status(db, status) == ById({r \in db : r.status = status})

\* session.add of a new object: INSERT with the next primary key.
add_image(db, next_id, image) == db \cup {[image EXCEPT !.id = next_id]}

\* session.merge: the row of the same primary key is overwritten.
update_image(db, image) == {IF r.id = image.id THEN image ELSE r : r \in db}

\* Lines 75-82 of discover_and_save_images: the new Image object.
discovered_image(relative_path, file_hash) ==
    [id |-> NoId, filename |-> [stem |-> relative_path.stem, ext |-> relative_path.ext],
     original_file_path |-> relative_path, file_hash |-> file_hash,
     status |-> "pending", optimized_file_path |-> EmptyPath,
     vision_json_path |-> EmptyPath, processed_at |-> None]

\* create_output_path(..., force_extension='.jpg').
create_output_path(relative_path) ==
    IF relative_path.ext # "jpg" THEN [relative_path EXCEPT !.ext = "jpg"]
    ELSE relative_path

DataInit ==
    /\ d_pc = "idle"
    /\ d_i = 0
    /\ d_image_files = << >>
    /\ d_images_list = << >>
    /\ d_selected = {}
    /\ d_output = [d \in Destinations |-> NoFile]
    /\ d_db = {}
    /\ d_next_id = 1

\* process_images_workflow is left: its locals are gone.
DataLeave ==
    /\ d_pc' = "idle"
    /\ d_i' = 0
    /\ d_image_files' = << >>
    /\ d_images_list' = << >>

\* process_images_workflow up to the loop of discover_and_save_images.
DataDiscover(f) ==
    /\ d_pc = "idle"
    /\ StartRun(f)
    /\ d_image_files' = discover_images
    /\ d_images_list' = << >>
    /\ d_selected' = {}
    /\ d_i' = 1
    /\ d_pc' = "discover"
    /\ UNCHANGED << d_output, d_db, d_next_id >>

\* discover_and_save_images, one file.  After the last file the workflow
\* returns if nothing was listed, else optimize_images_batch() takes the
\* pending rows of the database (images_list is None there).
DataDiscoverItem(hash_ok) ==
    /\ d_pc = "discover"
    /\ LET p == d_image_files[d_i]
           h == calculate_file_hash(files[p])
           existing_image == get_image_by_hash(d_db, h)
           added == hash_ok /\ ~Found(existing_image)
           saved_image == [discovered_image(p, h) EXCEPT !.id = d_next_id]
           db == IF added THEN add_image(d_db, d_next_id, discovered_image(p, h))
                 ELSE d_db
           images_list == IF ~hash_ok THEN d_images_list
                          ELSE IF Found(existing_image)
                          THEN Append(d_images_list, existing_image[1])
                          ELSE Append(d_images_list, saved_image)
           last == d_i = Len(d_image_files)
           pending == get_images_by_status(db, "pending")
       IN  /\ d_db' = db
           /\ d_next_id' = IF added THEN d_next_id + 1 ELSE d_next_id
           /\ IF last /\ (images_list = << >> \/ pending = << >>)
              THEN DataLeave /\ RunEnds("returned")
              ELSE /\ d_images_list' = IF last THEN pending ELSE images_list
                   /\ d_i' = IF last THEN 1 ELSE d_i + 1
                   /\ d_pc' = IF last THEN "optimize" ELSE "discover"
                   /\ RunGoesOn
                   /\ UNCHANGED d_image_files
    /\ UNCHANGED << d_selected, d_output >>

\* optimize_image, lines 100-108: the row is re-read and marked processing.
\* (The row exists: nothing deletes rows in this workflow.)
DataOptimizeBegin ==
    /\ d_pc = "optimize"
    /\ LET image == d_images_list[d_i]
           fresh_image == get_image_by_id(d_db, image.id)[1]
       IN  /\ d_db' = update_image(d_db, [fresh_image EXCEPT !.status = "processing"])
           /\ d_selected' = d_selected \cup {image.id}
    /\ d_pc' = "optimizing"
    /\ RunGoesOn
    /\ UNCHANGED << d_i, d_image_files, d_images_list, d_output, d_next_id >>

\* optimize_image, lines 110-178, and the loop of optimize_images_batch.
\* `io`: the optimization succeeds, or raises before or after it wrote the
\* destination file.
DataOptimizeEnd(io) ==
    /\ d_pc = "optimizing"
    /\ LET image == d_images_list[d_i]
           fresh_image == get_image_by_id(d_db, image.id)[1]
           optimized_path == create_output_path(fresh_image.original_file_path)
           exists == d_output[optimized_path] # NoFile
           completed == [fresh_image EXCEPT !.optimized_file_path = optimized_path,
                                            !.status = "completed",
                                            !.processed_at = "now"]
           failed == [fresh_image EXCEPT !.status = "failed", !.processed_at = "now"]
           ok == exists \/ io = "ok"
           last == d_i = Len(d_images_list)
       IN  /\ d_output' = IF ~exists /\ io \in {"ok", "raises_after_write"}
                          THEN [d_output EXCEPT ![optimized_path] =
                                    files[fresh_image.original_file_path]]
                          ELSE d_output
           /\ d_db' = update_image(d_db, IF ok THEN completed ELSE failed)
           /\ IF last
              THEN DataLeave /\ RunEnds("returned")
              ELSE /\ d_i' = d_i + 1
                   /\ d_pc' = "optimize"
                   /\ RunGoesOn
                   /\ UNCHANGED << d_image_files, d_images_list >>
    /\ UNCHANGED << d_selected, d_next_id >>

\* The process is interrupted: what the database and the disk hold stays.
DataInterrupt ==
    /\ d_pc # "idle"
    /\ DataLeave
    /\ RunEnds("interrupted")
    /\ UNCHANGED << d_selected, d_output, d_db, d_next_id >>

(***************************************************************************)
(* Text analysis: src/text_analyzer.py and src/core/text_analyzer.py.      *)
(* A character is its code point.  A rendered text is a sequence of        *)
(* pieces, each a character or a confidence marker; the empty marker of    *)
(* the HIGH level is the empty sequence of pieces.  Confidences are        *)
(* scaled by 10000 so that the thresholds are integers.                    *)
(***************************************************************************)
Analyzers == {"text_analyzer", "core"}

Char(ch) == [kind |-> "char", marker |-> "", ch |-> ch]

Marker(m) == IF m = "" THEN << >> ELSE << [kind |-> "marker", marker |-> m, ch |-> 0] >>

_is_hiragana(ch) == 12352 <= ch /\ ch <= 12447

_is_katakana_and_beyond(ch) == 12448 <= ch /\ ch <= 12544

_is_katakana(ch) == 12448 <= ch /\ ch <= 12543

_is_kanji(ch) == 19968 <= ch /\ ch <= 40879

_is_japanese_char(ch) == _is_hiragana(ch) \/ _is_katakana(ch) \/ _is_kanji(ch)

is_kana_like(ch) == (_is_hiragana(ch) \/ _is_katakana(ch)) /\ ~ _is_kanji(ch)

is_space(ch) == ch \in {9, 10, 13, 32, 12288}

\* text.strip(): the text without its leading and trailing whitespace
RECURSIVE lstrip(_)
lstrip(text) ==
    IF text = << >> THEN << >>
    ELSE IF Head(text).kind = "char" /\ is_space(Head(text).ch) THEN lstrip(Tail(text))
    ELSE text

RECURSIVE rstrip(_)
rstrip(text) ==
    IF text = << >> THEN << >>
    ELSE IF text[Len(text)].kind = "char" /\ is_space(text[Len(text)].ch)
         THEN rstrip(SubSeq(text, 1, Len(text) - 1))
    ELSE text

strip(text) == rstrip(lstrip(text))

\* a confidence attribute of a symbol: a number, None, text that is not a
\* number, or no attribute at all
Float(v) == [kind |-> "float", value |-> v]

NoneConfidence == [kind |-> "None", value |-> 0]

TextConfidence == [kind |-> "str", value |-> 0]

MissingConfidence == [kind |-> "missing", value |-> 0]

confidence_or_zero(symbol) ==
    IF symbol.confidence.kind = "float" THEN symbol.confidence.value ELSE 0

\* getattr(symbol, 'confidence', 1.0), then float() guarded by None and by
\* (ValueError, TypeError)
confidence_of(symbol) ==
    LET confidence == IF symbol.confidence.kind = "missing" THEN Float(10000)
                      ELSE symbol.confidence
    IN  IF confidence.kind = "None" THEN 10000
        ELSE IF confidence.kind = "str" THEN 10000
        ELSE confidence.value

confidence_thresholds == [high |-> 9000, medium |-> 8000, low |-> 6000]

confidence_markers == [medium |-> "[?]", low |-> "[??]", very_low |-> "[???]"]

\* the Confidence enumeration, in its declared order
Confidence ==
    << [name |-> "HIGH",     threshold |-> 9000, marker |-> ""],
       [name |-> "MEDIUM",   threshold |-> 8000, marker |-> "[?]"],
       [name |-> "LOW",      threshold |-> 6000, marker |-> "[??]"],
       [name |-> "VERY_LOW", threshold |-> 0,    marker |-> "[???]"] >>

_get_confidence_level_strict(confidence) ==
    IF confidence > confidence_thresholds.high THEN "high"
    ELSE IF confidence > confidence_thresholds.medium THEN "medium"
    ELSE IF confidence > confidence_thresholds.low THEN "low"
    ELSE "very_low"

_get_confidence_level(confidence) ==
    IF confidence >= confidence_thresholds.high THEN "high"
    ELSE IF confidence >= confidence_thresholds.medium THEN "medium"
    ELSE IF confidence >= confidence_thresholds.low THEN "low"
    ELSE "very_low"

mark_char(text, marker) == Marker(marker) \o text \o Marker(marker)

\* the body of the symbol loop of _process_paragraph_text
annotate_everything(symbol) ==
    LET confidence_level == _get_confidence_level(confidence_of(symbol))
        marker == IF confidence_level = "high" THEN "[?]"
                  ELSE confidence_markers[confidence_level]
    IN  Marker(marker) \o << Char(symbol.text) >> \o Marker(marker)

annotate(symbol) ==
    LET text == << Char(symbol.text) >>
        confidence_level == _get_confidence_level(confidence_of(symbol))
    IN  IF confidence_level \in DOMAIN confidence_markers
        THEN LET marker == confidence_markers[confidence_level]
             IN  Marker(marker) \o text \o Marker(marker)
        ELSE text

\* the symbols of a paragraph, word by word
RECURSIVE symbols_of_words(_)
symbols_of_words(words) ==
    IF words = << >> THEN << >> ELSE Head(words) \o symbols_of_words(Tail(words))

symbols_of(paragraph) == symbols_of_words(paragraph.words)

RECURSIVE join(_)
join(text_parts) ==
    IF text_parts = << >> THEN << >> ELSE Head(text_parts) \o join(Tail(text_parts))

_process_paragraph_text(paragraph) ==
    LET symbols == symbols_of(paragraph)
    IN  join([k \in 1..Len(symbols) |-> annotate(symbols[k])])

\* the characters of the paragraph, unmarked
_extract_plain_text(paragraph) ==
    LET symbols == symbols_of(paragraph)
    IN  [k \in 1..Len(symbols) |-> symbols[k].text]

(***************************************************************************)
(* Furigana detection: _detect_furigana_refined of both analyzers.  A      *)
(* paragraph is [bounding_box, words]; bounding_box is << >> when the      *)
(* paragraph has none, else << [width, height] >>, the two distances the   *)
(* code takes from the vertices.  Paragraphs are objects: the two result   *)
(* lists hold positions of the input list.                                 *)
(***************************************************************************)
RECURSIVE SeqOfSet(_)
SeqOfSet(S) ==
    IF S = {} THEN << >>
    ELSE LET least == CHOOSE x \in S : \A y \in S : x <= y
         IN  << least >> \o SeqOfSet(S \ {least})

RECURSIVE sorted(_)
sorted(data) ==
    IF data = << >> THEN << >>
    ELSE LET k == CHOOSE i \in DOMAIN data : \A j \in DOMAIN data : data[i] <= data[j]
         IN  << data[k] >> \o sorted(SubSeq(data, 1, k - 1) \o SubSeq(data, k + 1, Len(data)))

\* statistics.median, doubled to stay in the integers; it raises
\* StatisticsError on no data
median(data) ==
    IF data = << >> THEN [raised |-> TRUE, twice |-> 0]
    ELSE LET s == sorted(data)
             n == Len(s)
         IN  [raised |-> FALSE,
              twice  |-> IF n % 2 = 1 THEN 2 * s[(n + 1) \div 2]
                         ELSE s[n \div 2] + s[n \div 2 + 1]]

_calculate_paragraph_width(bounding_box) == bounding_box.width

_calculate_paragraph_height(bounding_box) == bounding_box.height

all_boxes(paragraphs) ==
    LET with_box == SeqOfSet({i \in DOMAIN paragraphs : Found(paragraphs[i].bounding_box)})
    IN  [k \in DOMAIN with_box |->
            LET paragraph == paragraphs[with_box[k]]
            IN  [paragraph |-> with_box[k],
                 width     |-> _calculate_paragraph_width(paragraph.bounding_box[1]),
                 height    |-> _calculate_paragraph_height(paragraph.bounding_box[1]),
                 text      |-> _extract_plain_text(paragraph)]]

positive(data) == SelectSeq(data, LAMBDA x : x > 0)

\* at least 80% of the Japanese characters are hiragana, and no kanji
_is_furigana_like_text(text) ==
    IF text = << >> THEN FALSE
    ELSE LET hiragana_count == Cardinality({k \in DOMAIN text : _is_hiragana(text[k])})
             kanji_count    == Cardinality({k \in DOMAIN text : _is_kanji(text[k])})
             japanese_count == Cardinality({k \in DOMAIN text : _is_japanese_char(text[k])})
         IN  IF japanese_count = 0 THEN FALSE
             ELSE 5 * hiragana_count >= 4 * japanese_count /\ kanji_count = 0

\* src/text_analyzer.py: False for the empty text
_is_all_hiragana(text) ==
    IF text = << >> THEN FALSE
    ELSE \A k \in DOMAIN text : _is_japanese_char(text[k]) => _is_hiragana(text[k])

\* src/core/text_analyzer.py: all() over the Japanese characters
core_is_all_hiragana(text) ==
    \A k \in DOMAIN text : _is_japanese_char(text[k]) => _is_hiragana(text[k])

\* width <= median_width * 0.5 and height <= median_height * 0.6, on the
\* doubled medians
within_whole_median_width(width, twice_median_width) == 2 * width <= twice_median_width

within_width_threshold(width, twice_median_width) == 4 * width <= twice_median_width

within_height_threshold(height, twice_median_height) == 10 * height <= 3 * twice_median_height

\* width / height > 1.5, computed only for positive sizes
wide_ratio(box) == box.width > 0 /\ box.height > 0 /\ 2 * box.width > 3 * box.height

\* src/text_analyzer.py, the loop body of _detect_furigana_refined
is_furigana(box, twice_median_width, twice_median_height) ==
    IF Len(box.text) > 5 THEN FALSE
    ELSE IF ~ _is_furigana_like_text(box.text) THEN FALSE
    ELSE LET is_small_width  == within_width_threshold(box.width, twice_median_width)
                                    /\ box.width > 0
             is_small_height == within_height_threshold(box.height, twice_median_height)
                                    /\ box.height > 0
             furigana_score  == (IF is_small_width THEN 2 ELSE 0)
                                + (IF is_small_height THEN 2 ELSE 0)
                                + (IF Len(box.text) <= 3 THEN 2 ELSE 0)
                                + (IF _is_all_hiragana(box.text) THEN 1 ELSE 0)
                                + (IF wide_ratio(box) THEN 1 ELSE 0)
         IN  IF ~ (is_small_width \/ is_small_height) THEN FALSE
             ELSE furigana_score >= 3

_additional_furigana_score(box) ==
    (IF Len(box.text) <= 3 THEN 2 ELSE 0)
    + (IF core_is_all_hiragana(box.text) THEN 1 ELSE 0)
    + (IF wide_ratio(box) THEN 1 ELSE 0)

\* src/core/text_analyzer.py, the loop body of _detect_furigana_refined
core_is_furigana(box, twice_median_width, twice_median_height) ==
    /\ Len(box.text) <= 5
    /\ _is_furigana_like_text(box.text)
    /\ \/ within_width_threshold(box.width, twice_median_width)
       \/ within_height_threshold(box.height, twice_median_height)
    /\ _additional_furigana_score(box) >= 3

\* the guard before the medians: no positive width, or no positive height
no_width(widths, heights) == widths = << >>

no_width_or_no_height(widths, heights) == widths = << >> \/ heights = << >>

Everything(paragraphs) == [k \in DOMAIN paragraphs |-> k]

\* the result is [raised, regular, furigana, examined]; examined lists the
\* texts given to _is_furigana_like_text
_detect_furigana_refined(impl, paragraphs) ==
    LET boxes   == all_boxes(paragraphs)
        widths  == positive([k \in DOMAIN boxes |-> boxes[k].width])
        heights == positive([k \in DOMAIN boxes |-> boxes[k].height])
        open(regular) == [raised |-> FALSE, regular |-> regular, furigana |-> << >>,
                          examined |-> << >>]
    IN  IF paragraphs = << >> THEN open(<< >>)
        ELSE IF boxes = << >> THEN open(Everything(paragraphs))
        ELSE IF no_width_or_no_height(widths, heights) THEN open(Everything(paragraphs))
        ELSE LET median_width  == median(widths)
                 median_height == median(heights)
             IN  IF median_width.raised \/ median_height.raised
                 THEN [raised |-> TRUE, regular |-> << >>, furigana |-> << >>,
                       examined |-> << >>]
                 ELSE LET verdict(box) ==
                              IF impl = "core"
                              THEN core_is_furigana(box, median_width.twice, median_height.twice)
                              ELSE is_furigana(box, median_width.twice, median_height.twice)
                          short == SelectSeq(boxes, LAMBDA box : Len(box.text) <= 5)
                      IN  [raised   |-> FALSE,
                           regular  |-> SeqOfSet({boxes[k].paragraph : k \in
                                            {j \in DOMAIN boxes : ~ verdict(boxes[j])}}),
                           furigana |-> SeqOfSet({boxes[k].paragraph : k \in
                                            {j \in DOMAIN boxes : verdict(boxes[j])}}),
                           examined |-> [k \in DOMAIN short |-> short[k].text]]

(***************************************************************************)
(* The responses analysed.  Two families: pages of up to MaxParagraphs     *)
(* paragraphs with every kind of bounding box and script, and single       *)
(* paragraphs whose symbols take every boundary code point and confidence. *)
(***************************************************************************)
Symbol(ch, confidence, width) == [text |-> ch, confidence |-> confidence, width |-> width]

Word(ch, n, width) == [k \in 1..n |-> Symbol(ch, Float(10000), width)]

\* no symbol, two hiragana, six hiragana, two katakana, two kanji
PageWords ==
    { << >>,
      << Word(12354, 2, 1) >>,
      << Word(12354, 6, 1) >>,
      << Word(12450, 2, 1) >>,
      << Word(28450, 2, 3) >> }

PageBoxes ==
    { << >>,
      << [width |-> 0, height |-> 3] >>,
      << [width |-> 3, height |-> 0] >>,
      << [width |-> 1, height |-> 1] >>,
      << [width |-> 3, height |-> 1] >>,
      << [width |-> 3, height |-> 3] >> }

PageParagraphs == [bounding_box : PageBoxes, words : PageWords]

Pages == UNION {[1..n -> PageParagraphs] : n \in 0..MaxParagraphs}

CodePoints == {32, 65, 12351, 12352, 12447, 12448, 12543, 12544, 19967, 19968, 40879, 40880}

Confidences ==
    {Float(v) : v \in {-1, 0, 5999, 6000, 7999, 8000, 8999, 9000, 10000, 15000}}
        \cup {NoneConfidence, TextConfidence, MissingConfidence}

Symbols ==
    {Symbol(ch, Float(10000), 1) : ch \in CodePoints}
        \cup {Symbol(12354, confidence, 1) : confidence \in Confidences}

SymbolWords ==
    {<< << a >> >> : a \in Symbols}
        \cup {<< << a, b >> >> : a \in Symbols, b \in Symbols}
        \cup {<< << a >>, << b >> >> : a \in Symbols, b \in Symbols}

SymbolPages ==
    {<< [bounding_box |-> << [width |-> 1, height |-> 1] >>, words |-> words] >> :
        words \in SymbolWords}

\* the Image rows given to analyze_images, and the state of the cache file
\* their vision_json_path names
Images ==
    [vision_json_path : {"", "a.json"}, status : {"completed", "failed"},
     cache : {"ok", "absent", "malformed"}]

has_ocr_data(image) == image.vision_json_path # "" /\ image.status # "failed"

\* None when the file is absent or cannot be parsed
_load_vision_response(image) == IF image.cache = "ok" THEN << "response" >> ELSE << >>

TextIdle ==
    /\ t_impl = "core"
    /\ t_image = [vision_json_path |-> "", status |-> "completed", cache |-> "absent"]
    /\ t_paragraphs = << >>
    /\ t_pc = "idle"
    /\ t_raised = FALSE
    /\ t_regular = << >>
    /\ t_furigana = << >>
    /\ t_chars = << >>
    /\ t_symbols = << >>
    /\ t_processed = [regular |-> << >>, furigana |-> << >>]
    /\ t_lines = << >>

TextInit ==
    /\ t_impl \in Analyzers
    /\ t_image \in Images
    /\ t_impl = "text_analyzer" =>
            /\ t_image.vision_json_path = "a.json"
            /\ t_image.status = "completed"
            /\ t_image.cache # "malformed"
    /\ t_paragraphs \in Pages \cup SymbolPages
    /\ ~ (has_ocr_data(t_image) /\ t_image.cache = "ok") => t_paragraphs = << >>
    /\ t_pc = "load"
    /\ t_raised = FALSE
    /\ t_regular = << >>
    /\ t_furigana = << >>
    /\ t_chars = << >>
    /\ t_symbols = << >>
    /\ t_processed = [regular |-> << >>, furigana |-> << >>]
    /\ t_lines = << >>

\* TextAnalyzer.analyze_images up to the loaded response; for
\* src/text_analyzer.py, OCRBatchProcessor's test that the result file exists
TextLoad ==
    /\ t_pc = "load"
    /\ t_pc' = IF t_impl = "core" /\ ~ has_ocr_data(t_image) THEN "skipped"
               ELSE IF ~ Found(_load_vision_response(t_image)) THEN "skipped"
               ELSE "detect"
    /\ UNCHANGED << t_impl, t_image, t_paragraphs, t_raised, t_regular, t_furigana,
                    t_chars, t_symbols, t_processed, t_lines >>

scripts_of(text) ==
    [k \in DOMAIN text |->
        [ch |-> text[k], hiragana |-> _is_hiragana(text[k]),
         katakana |-> _is_katakana(text[k]), kanji |-> _is_kanji(text[k]),
         japanese |-> _is_japanese_char(text[k])]]

\* analyze_vision_response up to the two lists of paragraphs; an exception
\* is caught by the caller, which leaves the image out
TextDetect ==
    /\ t_pc = "detect"
    /\ LET detected == _detect_furigana_refined(t_impl, t_paragraphs)
       IN  /\ t_raised' = detected.raised
           /\ t_regular' = detected.regular
           /\ t_furigana' = detected.furigana
           /\ t_chars' = join([k \in DOMAIN detected.examined |->
                                    scripts_of(detected.examined[k])])
           /\ t_pc' = IF detected.raised THEN "skipped" ELSE "process"
    /\ UNCHANGED << t_impl, t_image, t_paragraphs, t_symbols, t_processed, t_lines >>

rendered(which) ==
    [k \in DOMAIN which |->
        [paragraph |-> which[k], text |-> _process_paragraph_text(t_paragraphs[which[k]])]]

symbols_rendered(which) ==
    join([k \in DOMAIN which |->
            LET symbols == symbols_of(t_paragraphs[which[k]])
            IN  [j \in DOMAIN symbols |->
                    [paragraph  |-> which[k],
                     symbol     |-> symbols[j],
                     confidence |-> confidence_of(symbols[j]),
                     level      |-> _get_confidence_level(confidence_of(symbols[j])),
                     text       |-> annotate(symbols[j])]]])

\* analyze_vision_response from the two lists to the result: each paragraph
\* rendered, the renderings that strip to nothing left out
TextProcess ==
    /\ t_pc = "process"
    /\ t_processed' =
            [regular  |-> SelectSeq(rendered(t_regular), LAMBDA r : strip(r.text) # << >>),
             furigana |-> SelectSeq(rendered(t_furigana), LAMBDA r : strip(r.text) # << >>)]
    /\ t_symbols' = symbols_rendered(t_regular \o t_furigana)
    /\ t_pc' = "section"
    /\ UNCHANGED << t_impl, t_image, t_paragraphs, t_raised, t_regular, t_furigana,
                    t_chars, t_lines >>

\* the header line, the regular lines, then the furigana lines
_build_image_section(result) ==
    << [tag |-> "=== Image", paragraph |-> 0, text |-> << >>] >>
        \o [k \in DOMAIN result.regular |->
                [tag |-> "[REGULAR]", paragraph |-> result.regular[k].paragraph,
                 text |-> result.regular[k].text]]
        \o [k \in DOMAIN result.furigana |->
                [tag |-> "[FURIGANA]", paragraph |-> result.furigana[k].paragraph,
                 text |-> result.furigana[k].text]]

TextSection ==
    /\ t_pc = "section"
    /\ t_lines' = _build_image_section(t_processed)
    /\ t_pc' = "done"
    /\ UNCHANGED << t_impl, t_image, t_paragraphs, t_raised, t_regular, t_furigana,
                    t_chars, t_symbols, t_processed >>

(***************************************************************************)
(* The OCR step of the workflow: VisionProcessor.process_images            *)
(* (src/core/gv_api.py) and the loop of                                    *)
(* OCRWorkflowManager._process_with_vision_api that saves the responses    *)
(* (src/workflow_manager.py).  Image containers are objects: g_images      *)
(* holds them in the order of the list given, and the lists built by the   *)
(* code hold their positions.                                              *)
(***************************************************************************)
\* an ImageModel row as optimization leaves it
image_model(id, relative_path, content, status) ==
    [discovered_image(relative_path, calculate_file_hash(content)) EXCEPT
        !.id = id, !.status = status,
        !.optimized_file_path = create_output_path(relative_path),
        !.processed_at = "now"]

\* the Image container: no bytes is 0, no response the empty sequence
Image(model, image_bytes) ==
    [image_model |-> model, image_bytes |-> image_bytes, vision_response |-> << >>]

\* the lists given: the rows of one table never share a file hash
ImageLists ==
    LET one(id, p) ==
            UNION {{Image(image_model(id, p, content, status), NoFile),
                    Image(image_model(id, p, content, status), content)} :
                        content \in Contents, status \in {"completed", "failed"}}
        two == {ab \in one(1, Folder[1]) \X one(2, Folder[2]) :
                    ab[1].image_model.file_hash # ab[2].image_model.file_hash}
    IN  {<< >>}
            \cup {<< a >> : a \in one(1, Folder[1])}
            \cup {<< ab[1], ab[2] >> : ab \in two}
            \cup {<< ab[2], ab[1] >> : ab \in two}

\* text_detection on the bytes: the response is a function of the bytes
_call_vision_api(image_content) == << image_content >>

skipped(image) == image.image_bytes = NoFile \/ image.image_model.status = "failed"

\* the except body of process_images, had it marked the image failed
failed_call(image) ==
    [image EXCEPT !.vision_response = << >>, !.image_model.status = "failed"]

\* the except body of process_images
raised_call(image) == [image EXCEPT !.vision_response = << >>]

\* vision_responses/<stem of filename>_vision_response.json
response_path(image) ==
    [dir |-> "vision_responses", stem |-> image.image_model.filename.stem, ext |-> "json"]

ResponsePaths == {[dir |-> "vision_responses", stem |-> p.stem, ext |-> "json"] : p \in Paths}

VisionIdle ==
    /\ g_pc = "idle"
    /\ g_i = 0
    /\ g_images = << >>
    /\ g_given = << >>
    /\ g_processed = << >>
    /\ g_calls = << >>
    /\ g_folder = [p \in ResponsePaths |-> << >>]
    /\ g_db = {}

VisionInit ==
    /\ g_pc = "process"
    /\ g_i = 1
    /\ g_images \in ImageLists
    /\ g_given = g_images
    /\ g_processed = << >>
    /\ g_calls = << >>
    /\ g_folder = [p \in ResponsePaths |-> << >>]
    /\ g_db = {g_images[k].image_model : k \in DOMAIN g_images}

\* process_images, one image of the loop; `api` is whether the Vision call
\* returns or raises
VisionProcess(api) ==
    /\ g_pc = "process"
    /\ g_i <= Len(g_images)
    /\ LET image == g_images[g_i]
           how == IF skipped(image) THEN "skipped" ELSE api
       IN  /\ g_images' = [g_images EXCEPT ![g_i] =
                            CASE how = "skipped" -> image
                              [] how = "ok" -> [image EXCEPT !.vision_response =
                                                    _call_vision_api(image.image_bytes)]
                              [] OTHER -> raised_call(image)]
           /\ g_calls' = Append(g_calls, how)
    /\ g_processed' = Append(g_processed, g_i)
    /\ g_i' = g_i + 1
    /\ UNCHANGED << g_pc, g_given, g_folder, g_db >>

\* process_images returns processed_images
VisionReturn ==
    /\ g_pc = "process"
    /\ g_i > Len(g_images)
    /\ g_pc' = "save"
    /\ g_i' = 1
    /\ UNCHANGED << g_images, g_given, g_processed, g_calls, g_folder, g_db >>

\* the saving loop, one image: the response is written to its file, the path
\* stored in the image model and the model in the database; `io` is whether
\* the file could be written
VisionSave(io) ==
    /\ g_pc = "save"
    /\ g_i <= Len(g_processed)
    /\ LET k == g_processed[g_i]
           image == g_images[k]
           saved == [image EXCEPT !.image_model.vision_json_path = response_path(image)]
       IN  IF image.vision_response # << >> /\ io = "ok"
           THEN /\ g_folder' = [g_folder EXCEPT ![response_path(image)] = image.vision_response]
                /\ g_images' = [g_images EXCEPT ![k] = saved]
                /\ g_db' = update_image(g_db, saved.image_model)
           ELSE UNCHANGED << g_folder, g_images, g_db >>
    /\ g_i' = g_i + 1
    /\ UNCHANGED << g_pc, g_given, g_processed, g_calls >>

\* _process_with_vision_api returns
VisionDone ==
    /\ g_pc = "save"
    /\ g_i > Len(g_processed)
    /\ g_pc' = "done"
    /\ UNCHANGED << g_i, g_images, g_given, g_processed, g_calls, g_folder, g_db >>

(***************************************************************************)
(* The formatters: src/output_generator.py (generation 1, with its caller  *)
(* in OCRBatchProcessor), src/core/output_generator.py and                 *)
(* src/output_generation/output_generator.py.  A text is the sequence of   *)
(* its lines; a line is [tag, path, text, n]: the fixed words it starts    *)
(* with, the file name of an image header, the text of a paragraph line,   *)
(* the number of a count or a time.                                        *)
(***************************************************************************)
Line(tag, path, text, n) == [tag |-> tag, path |-> path, text |-> text, n |-> n]

Blank == Line("", EmptyPath, "", 0)

image_header(filename) == Line("=== Image", filename, "", 0)

\* output_generation: build_line
build_line(text, is_furigana_line) ==
    Line(IF is_furigana_line THEN "[FURIGANA]" ELSE "[REGULAR]", EmptyPath, text, 0)

\* output_generation: build_image_section inserts the header into the list
\* it is given and returns the list joined; `lines` is the list afterwards
build_image_section(lines, filename) ==
    LET inserted == << image_header(filename) >> \o lines
    IN  [lines |-> inserted, section |-> inserted]

\* the four header lines; datetime.now() is read to the second
_build_header(total_images, clock) ==
    << Line("=== Japanese OCR Results ===", EmptyPath, "", 0),
       Line("Total Images Processed", EmptyPath, "", total_images),
       Line("Generated", EmptyPath, "", clock),
       Line("Confidence Markers", EmptyPath, "", 0) >>

\* output_generation: build_final_result, the sections in the order given,
\* each between blank lines
build_final_result(image_sections, clock) ==
    _build_header(Len(image_sections), clock)
        \o join([k \in DOMAIN image_sections |->
                    << Blank >> \o image_sections[k] \o << Blank >>])

\* core: _build_image_section on a result of file name and two lists of texts
core_build_image_section(result) ==
    << image_header(result.relative_path) >>
        \o [k \in DOMAIN result.regular_text |-> build_line(result.regular_text[k], FALSE)]
        \o [k \in DOMAIN result.furigana_text |-> build_line(result.furigana_text[k], TRUE)]

\* core: _build_output_content
_build_output_content(analyzed_results, clock) ==
    _build_header(Len(analyzed_results), clock) \o << Blank >>
        \o join([k \in DOMAIN analyzed_results |->
                    core_build_image_section(analyzed_results[k]) \o << Blank >>])

\* generation 1: generate_text_output writes two lines, then evaluates
\* datetime.now() on the module `datetime` (import datetime, line 1), which
\* raises AttributeError; the with statement closes the file
generate_text_output(processed_results) ==
    [raised |-> TRUE,
     file   |-> << Line("=== Japanese OCR Results ===", EmptyPath, "", 0),
                   Line("Total Images Processed", EmptyPath, "", Len(processed_results)) >>]

\* the key of final_results.sort: the relative path, in string order (the
\* order of Folder)
path_rank(p) == CHOOSE i \in DOMAIN Folder : Folder[i] = p

RECURSIVE sort_by_relative_path(_)
sort_by_relative_path(results) ==
    IF results = << >> THEN << >>
    ELSE LET k == CHOOSE i \in DOMAIN results : \A j \in DOMAIN results :
                        path_rank(results[i].relative_path)
                            <= path_rank(results[j].relative_path)
         IN  << results[k] >>
                \o sort_by_relative_path(SubSeq(results, 1, k - 1)
                                            \o SubSeq(results, k + 1, Len(results)))

\* the analysed results of the images, in any order of arrival
AnalyzedResults ==
    LET of(p) == {[relative_path |-> p, regular_text |-> r, furigana_text |-> f] :
                    r \in {<< >>, << "r" >>}, f \in {<< >>, << "f" >>}}
    IN  {<< >>}
            \cup {<< a >> : a \in of(Folder[1])}
            \cup {<< a, b >> : a \in of(Folder[1]), b \in of(Folder[2])}
            \cup {<< b, a >> : a \in of(Folder[1]), b \in of(Folder[2])}

\* the section of a result as main.py builds it: build_line per text, then
\* build_image_section on the fresh list
section_of(result) ==
    build_image_section(
        [k \in DOMAIN result.regular_text |-> build_line(result.regular_text[k], FALSE)]
            \o [k \in DOMAIN result.furigana_text |-> build_line(result.furigana_text[k], TRUE)],
        result.relative_path).section

FormatIdle ==
    /\ f_pc = "idle"
    /\ f_clock = 0
    /\ f_results = << >>
    /\ f_lines = << >>
    /\ f_calls = << >>
    /\ f_file = << >>

FormatInit ==
    /\ f_pc = "ready"
    /\ f_clock = 0
    /\ f_results \in AnalyzedResults
    /\ f_lines \in {<< >>, << build_line("r", FALSE) >>,
                    << build_line("r", FALSE), build_line("f", TRUE) >>}
    /\ f_calls = << >>
    /\ f_file = << >>

\* the file names of a list of results, in its order
relative_paths(results) == [k \in DOMAIN results |-> results[k].relative_path]

\* a call in the history: the operation, the file names of the results it
\* was given (none for a section), what it returned or wrote, whether it
\* raised
Call(op, given, output, raised) ==
    [op |-> op, given |-> given, output |-> output, raised |-> raised]

\* a second passes
FormatTick ==
    /\ f_pc = "ready"
    /\ f_clock < MaxCalls
    /\ f_clock' = f_clock + 1
    /\ UNCHANGED << f_pc, f_results, f_lines, f_calls, f_file >>

\* build_image_section is called on the list of lines
FormatSection ==
    /\ f_pc = "ready"
    /\ Len(f_calls) < MaxCalls
    /\ LET built == build_image_section(f_lines, Folder[1])
       IN  /\ f_lines' = built.lines
           /\ f_calls' = Append(f_calls, Call("build_image_section", << >>, built.section, FALSE))
    /\ UNCHANGED << f_pc, f_clock, f_results, f_file >>

\* build_final_result is called on the sections of the results
FormatFinalResult ==
    /\ f_pc = "ready"
    /\ Len(f_calls) < MaxCalls
    /\ f_calls' = Append(f_calls,
                         Call("build_final_result", relative_paths(f_results),
                              build_final_result([k \in DOMAIN f_results |->
                                                    section_of(f_results[k])], f_clock),
                              FALSE))
    /\ UNCHANGED << f_pc, f_clock, f_results, f_lines, f_file >>

\* core: _build_output_content is called on the results
FormatCoreContent ==
    /\ f_pc = "ready"
    /\ Len(f_calls) < MaxCalls
    /\ f_calls' = Append(f_calls,
                         Call("_build_output_content", relative_paths(f_results),
                              _build_output_content(f_results, f_clock), FALSE))
    /\ UNCHANGED << f_pc, f_clock, f_results, f_lines, f_file >>

\* generation 1, stage 5: final_results is sorted in place and given to
\* generate_text_output
FormatGenerate ==
    /\ f_pc = "ready"
    /\ Len(f_calls) < MaxCalls
    /\ LET final_results == sort_by_relative_path(f_results)
           written == generate_text_output(final_results)
       IN  /\ f_results' = final_results
           /\ f_file' = written.file
           /\ f_calls' = Append(f_calls,
                                Call("generate_text_output", relative_paths(final_results),
                                     written.file, written.raised))
    /\ UNCHANGED << f_pc, f_clock, f_lines >>

(***************************************************************************)
(* Retrying the failed images: ImageProcessor.retry_failed_images of      *)
(* src/core/img_processor.py, on a ledger a run has left behind.           *)
(***************************************************************************)
\* _create_optimized_path: with_suffix('.jpg')
_create_optimized_path(original_path) == [original_path EXCEPT !.ext = "jpg"]

\* a row of the ledger as the runs leave it: a failed row has been stamped,
\* a completed row has its optimized path
ledger_row(id, relative_path, file_hash, status) ==
    [discovered_image(relative_path, file_hash) EXCEPT
        !.id = id,
        !.status = status,
        !.optimized_file_path = IF status = "completed"
                                THEN _create_optimized_path(relative_path)
                                ELSE EmptyPath,
        !.processed_at = IF status \in {"completed", "failed"} THEN "now" ELSE None]

Statuses == {"pending", "processing", "completed", "failed"}

\* the ledgers of one image and of two images of different contents
Ledgers ==
    {{}}
        \cup {{ledger_row(1, Folder[1], calculate_file_hash(1), s)} : s \in Statuses}
        \cup {{ledger_row(1, Folder[1], calculate_file_hash(1), s),
               ledger_row(2, Folder[2], calculate_file_hash(2), t)} :
                    s \in Statuses, t \in Statuses}

\* lines 360-362: update_image_status(image.id, PENDING) for each failed
\* image; processed_at is set for COMPLETED and FAILED only, so it stays
reset_to_pending(db) ==
    {IF r.status = "failed" THEN [r EXCEPT !.status = "pending"] ELSE r : r \in db}

\* optimize_image on one row: marked processing; completed if the optimized
\* file exists or the optimization succeeds, failed if it raises
optimize_image(db, output, image_id, io) ==
    LET fresh_image == [get_image_by_id(db, image_id)[1] EXCEPT !.status = "processing"]
        optimized_relative_path == _create_optimized_path(fresh_image.original_file_path)
        exists == output[optimized_relative_path] # NoFile
        completed == [fresh_image EXCEPT !.optimized_file_path = optimized_relative_path,
                                         !.status = "completed",
                                         !.processed_at = "now"]
        failed == [fresh_image EXCEPT !.status = "failed", !.processed_at = "now"]
    IN  [db     |-> update_image(db, IF exists \/ io = "ok" THEN completed ELSE failed),
         output |-> IF ~exists /\ io \in {"ok", "raises_after_write"}
                    THEN [output EXCEPT ![optimized_relative_path] =
                                files[fresh_image.original_file_path]]
                    ELSE output]

\* optimize_images_batch on the list given
RECURSIVE optimize_images_batch(_, _, _, _)
optimize_images_batch(db, output, images_list, io) ==
    IF images_list = << >> THEN [db |-> db, output |-> output]
    ELSE LET one == optimize_image(db, output, images_list[1].id, io[images_list[1].id])
         IN  optimize_images_batch(one.db, one.output, Tail(images_list), io)

\* retry_failed_images, whole
retry_failed_images(db, output, io) ==
    LET failed_images == get_images_by_status(db, "failed")
    IN  IF failed_images = << >> THEN [db |-> db, output |-> output]
        ELSE optimize_images_batch(reset_to_pending(db), output, failed_images, io)

RetryIdle ==
    /\ r_db = {}
    /\ r_output = [d \in Destinations |-> NoFile]
    /\ r_log = << >>

\* a completed row's optimized file is there; another file may be
RetryInit ==
    /\ r_db \in Ledgers
    /\ r_output \in [Destinations -> {NoFile} \cup Contents]
    /\ \A r \in r_db : r.status = "completed" => r_output[r.optimized_file_path] # NoFile
    /\ r_log = << >>

\* retry_failed_images is called; `io`: per image, whether its optimization
\* succeeds, raises, or raises after the file was written
RetryFailedImages(io) ==
    /\ Len(r_log) < MaxCalls
    /\ LET retried == retry_failed_images(r_db, r_output, io)
       IN  /\ r_db' = retried.db
           /\ r_output' = retried.output
           /\ r_log' = Append(r_log, [before |-> r_db, after |-> retried.db])

(***************************************************************************)
(* The size-reduction loop of JapaneseOCRProcessor.optimize_image          *)
(* (src/ocr_processor.py).  Sizes are in whole megabytes; the encoder may  *)
(* give any size at any quality.                                           *)
(***************************************************************************)
initial_quality == 95

quality_step == 5

quality_floor == 30

\* line 58 with a floor of 25
break_at_25(size_mb, max_size_mb, quality) ==
    size_mb <= max_size_mb \/ quality <= 25

\* line 58: if size_mb <= max_size_mb or quality <= 30: break
break_loop(size_mb, max_size_mb, quality) ==
    size_mb <= max_size_mb \/ quality <= quality_floor

SizesMb == 0 .. MaxSizeMb + 1

QualityIdle ==
    /\ q_pc = "idle"
    /\ q_max_size_mb = 4
    /\ q_quality = 0
    /\ q_size_mb = 0
    /\ q_iterations = 0
    /\ q_encoded = {}

QualityInit ==
    /\ q_pc = "idle"
    /\ q_max_size_mb \in 1 .. MaxSizeMb
    /\ q_quality = 0
    /\ q_size_mb = 0
    /\ q_iterations = 0
    /\ q_encoded = {}

\* lines 37-50: the image is opened, converted, resized; quality = 95
OptimizeBegin ==
    /\ q_pc = "idle"
    /\ q_pc' = "loop"
    /\ q_quality' = initial_quality
    /\ UNCHANGED << q_max_size_mb, q_size_mb, q_iterations, q_encoded >>

\* lines 52-61, one iteration: the image is encoded at the quality, giving
\* size_mb; the loop is left, or the quality lowered
OptimizeEncode(size_mb) ==
    /\ q_pc = "loop"
    /\ q_size_mb' = size_mb
    /\ q_iterations' = q_iterations + 1
    /\ q_encoded' = q_encoded \cup {q_quality}
    /\ IF break_loop(size_mb, q_max_size_mb, q_quality)
       THEN q_pc' = "returned" /\ UNCHANGED q_quality
       ELSE q_quality' = q_quality - quality_step /\ UNCHANGED q_pc
    /\ UNCHANGED q_max_size_mb

(***************************************************************************)
(* Two overlapping runs of BatchProcessor.process_folder                   *)
(* (src/core/batch_processor.py) on a folder of one file, sharing the      *)
(* database; sqlite makes each statement atomic and nothing more.          *)
(***************************************************************************)
Workers == {1, 2}

\* the one file both runs find
the_path == Folder[1]

\* the ledger at the start: empty, or holding the file's row of an earlier run
stored_image == [optimized_image(new_image(the_path, calculate_file_hash(1))) EXCEPT !.id = 1]

WorkersIdle ==
    /\ w_pc = [w \in Workers |-> "idle"]
    /\ w_image = [w \in Workers |-> << >>]
    /\ w_db = {}
    /\ w_next_id = 1

WorkersInit ==
    /\ w_pc = [w \in Workers |-> "start"]
    /\ w_image = [w \in Workers |-> << >>]
    /\ \/ w_db = {} /\ w_next_id = 1
       \/ w_db = {stored_image} /\ w_next_id = 2

\* lines 33-61 for the file: hash, lookup by path, reuse or queue; `content`
\* is what the file holds when this run reads it
WorkerScan(w, content) ==
    /\ w_pc[w] = "start"
    /\ LET h == calculate_file_hash(content)
           existing_image == get_image_by_path(w_db, the_path)
           reuse == Found(existing_image) /\ same_image(existing_image[1], h)
           queued == IF Found(existing_image)
                     THEN requeued_image(existing_image[1], h)
                     ELSE new_image(the_path, h)
       IN  IF reuse
           THEN /\ w_pc' = [w_pc EXCEPT ![w] = "returned"]
                /\ UNCHANGED w_image
           ELSE /\ w_pc' = [w_pc EXCEPT ![w] = "queued"]
                /\ w_image' = [w_image EXCEPT ![w] = << queued >>]
    /\ UNCHANGED << w_db, w_next_id >>

\* line 65: optimize_images on the queued image
WorkerOptimize(w, copy_ok) ==
    /\ w_pc[w] = "queued"
    /\ w_image' = [w_image EXCEPT ![w] = << IF copy_ok THEN optimized_image(w_image[w][1])
                                           ELSE failed_image(w_image[w][1]) >>]
    /\ w_pc' = [w_pc EXCEPT ![w] = "processed"]
    /\ UNCHANGED << w_db, w_next_id >>

\* lines 68-71: save_image, whose exception nothing catches
WorkerSave(w) ==
    /\ w_pc[w] = "processed"
    /\ LET saved == save_image(w_db, w_next_id, w_image[w][1])
       IN  /\ w_db' = saved.db
           /\ w_next_id' = saved.next_id
           /\ w_pc' = [w_pc EXCEPT ![w] = IF saved.raised THEN "raised" ELSE "returned"]
    /\ UNCHANGED w_image

(***************************************************************************)
(* The specifications.                                                     *)
(***************************************************************************)
\* the steps modelled apart from the pipeline are at rest
AuxIdle == VisionIdle /\ FormatIdle /\ RetryIdle /\ QualityIdle /\ WorkersIdle

InitV1 == FilesInit /\ V1Init /\ CoreInit /\ DataInit /\ TextIdle /\ AuxIdle

NextV1 ==
    \/ \E f \in [Paths -> Contents] : V1Discover(f) /\ UNCHANGED << corevars, datavars, textvars, auxvars >>
    \/ \E io \in {"ok", "hash_raises", "copy_raises"} : V1Stage2(io) /\ UNCHANGED << corevars, datavars, textvars, auxvars >>
    \/ \E ocr_ok \in BOOLEAN : V1Stage3(ocr_ok) /\ UNCHANGED << corevars, datavars, textvars, auxvars >>

SpecV1 == InitV1 /\ [][NextV1]_vars

InitCore == FilesInit /\ V1Init /\ CoreInit /\ DataInit /\ TextIdle /\ AuxIdle

NextCore ==
    \/ \E f \in [Paths -> Contents] : CoreDiscover(f) /\ UNCHANGED << v1vars, datavars, textvars, auxvars >>
    \/ \E hash_ok \in BOOLEAN : CoreScan(hash_ok) /\ UNCHANGED << v1vars, datavars, textvars, auxvars >>
    \/ \E copy_ok \in BOOLEAN : CoreOptimize(copy_ok) /\ UNCHANGED << v1vars, datavars, textvars, auxvars >>
    \/ CoreSave /\ UNCHANGED << v1vars, datavars, textvars, auxvars >>
    \/ CoreInterrupt /\ UNCHANGED << v1vars, datavars, textvars, auxvars >>

SpecCore == InitCore /\ [][NextCore]_vars

InitData == FilesInit /\ V1Init /\ CoreInit /\ DataInit /\ TextIdle /\ AuxIdle

NextData ==
    \/ \E f \in [Paths -> Contents] : DataDiscover(f) /\ UNCHANGED << v1vars, corevars, textvars, auxvars >>
    \/ \E hash_ok \in BOOLEAN : DataDiscoverItem(hash_ok) /\ UNCHANGED << v1vars, corevars, textvars, auxvars >>
    \/ DataOptimizeBegin /\ UNCHANGED << v1vars, corevars, textvars, auxvars >>
    \/ \E io \in {"ok", "raises", "raises_after_write"} :
            DataOptimizeEnd(io) /\ UNCHANGED << v1vars, corevars, textvars, auxvars >>
    \/ DataInterrupt /\ UNCHANGED << v1vars, corevars, textvars, auxvars >>

SpecData == InitData /\ [][NextData]_vars

\* the analysis reads no file of the folder: one folder stands for all
InitText ==
    /\ FilesInit /\ files = [p \in Paths |-> 1]
    /\ V1Init /\ CoreInit /\ DataInit /\ TextInit /\ AuxIdle

NextText ==
    \/ TextLoad /\ UNCHANGED << envvars, v1vars, corevars, datavars, auxvars >>
    \/ TextDetect /\ UNCHANGED << envvars, v1vars, corevars, datavars, auxvars >>
    \/ TextProcess /\ UNCHANGED << envvars, v1vars, corevars, datavars, auxvars >>
    \/ TextSection /\ UNCHANGED << envvars, v1vars, corevars, datavars, auxvars >>

SpecText == InitText /\ [][NextText]_vars

\* everything else stays as it is
beside_visionvars == << envvars, v1vars, corevars, datavars, textvars, formatvars, retryvars, qualityvars, workervars >>

RestOf_visionvars ==
    /\ FilesInit /\ files = [p \in Paths |-> 1]
    /\ V1Init /\ CoreInit /\ DataInit /\ TextIdle /\ FormatIdle /\ RetryIdle /\ QualityIdle /\ WorkersIdle

InitVision == RestOf_visionvars /\ VisionInit

NextVision ==
    \/ \E api \in {"ok", "raises"} : VisionProcess(api) /\ UNCHANGED beside_visionvars
    \/ VisionReturn /\ UNCHANGED beside_visionvars
    \/ \E io \in {"ok", "raises"} : VisionSave(io) /\ UNCHANGED beside_visionvars
    \/ VisionDone /\ UNCHANGED beside_visionvars

SpecVision == InitVision /\ [][NextVision]_vars

\* everything else stays as it is
beside_formatvars == << envvars, v1vars, corevars, datavars, textvars, visionvars, retryvars, qualityvars, workervars >>

RestOf_formatvars ==
    /\ FilesInit /\ files = [p \in Paths |-> 1]
    /\ V1Init /\ CoreInit /\ DataInit /\ TextIdle /\ VisionIdle /\ RetryIdle /\ QualityIdle /\ WorkersIdle

InitFormat == RestOf_formatvars /\ FormatInit

NextFormat ==
    \/ FormatTick /\ UNCHANGED beside_formatvars
    \/ FormatSection /\ UNCHANGED beside_formatvars
    \/ FormatFinalResult /\ UNCHANGED beside_formatvars
    \/ FormatCoreContent /\ UNCHANGED beside_formatvars
    \/ FormatGenerate /\ UNCHANGED beside_formatvars

SpecFormat == InitFormat /\ [][NextFormat]_vars

\* everything else stays as it is
beside_retryvars == << envvars, v1vars, corevars, datavars, textvars, visionvars, formatvars, qualityvars, workervars >>

RestOf_retryvars ==
    /\ FilesInit /\ files = [p \in Paths |-> 1]
    /\ V1Init /\ CoreInit /\ DataInit /\ TextIdle /\ VisionIdle /\ FormatIdle /\ QualityIdle /\ WorkersIdle

InitRetry == RestOf_retryvars /\ RetryInit

NextRetry ==
    \E io \in [{1, 2} -> {"ok", "raises", "raises_after_write"}] :
        RetryFailedImages(io) /\ UNCHANGED beside_retryvars

SpecRetry == InitRetry /\ [][NextRetry]_vars

\* everything else stays as it is
beside_qualityvars == << envvars, v1vars, corevars, datavars, textvars, visionvars, formatvars, retryvars, workervars >>

RestOf_qualityvars ==
    /\ FilesInit /\ files = [p \in Paths |-> 1]
    /\ V1Init /\ CoreInit /\ DataInit /\ TextIdle /\ VisionIdle /\ FormatIdle /\ RetryIdle /\ WorkersIdle

InitQuality == RestOf_qualityvars /\ QualityInit

NextQuality ==
    \/ OptimizeBegin /\ UNCHANGED beside_qualityvars
    \/ \E size_mb \in SizesMb : OptimizeEncode(size_mb) /\ UNCHANGED beside_qualityvars

\* a call that has begun goes on: nothing in the loop waits
SpecQuality == InitQuality /\ [][NextQuality]_vars /\ WF_vars(NextQuality)

\* everything else stays as it is
beside_workervars == << envvars, v1vars, corevars, datavars, textvars, visionvars, formatvars, retryvars, qualityvars >>

RestOf_workervars ==
    /\ FilesInit /\ files = [p \in Paths |-> 1]
    /\ V1Init /\ CoreInit /\ DataInit /\ TextIdle /\ VisionIdle /\ FormatIdle /\ RetryIdle /\ QualityIdle

InitWorkers == RestOf_workervars /\ WorkersInit

NextWorkers ==
    \/ \E w \in Workers, content \in Contents :
            WorkerScan(w, content) /\ UNCHANGED beside_workervars
    \/ \E w \in Workers, copy_ok \in BOOLEAN :
            WorkerOptimize(w, copy_ok) /\ UNCHANGED beside_workervars
    \/ \E w \in Workers : WorkerSave(w) /\ UNCHANGED beside_workervars

SpecWorkers == InitWorkers /\ [][NextWorkers]_vars

(***************************************************************************)
(* The claims.                                                             *)
(***************************************************************************)

\* C1 (SpecV1): idempotence.  An item whose OCR output was obtained in an
\* earlier run, in a folder no file of which changed since, is not given to
\* the OCR collaborator again.
C1_Idempotence ==
    \A k \in DOMAIN v1_ocr_log :
        (v1_ocr_log[k].run < runs /\ delta = {})
            => v1_ocr_log[k].relative_path \notin v1_attempted

C3_FailSafeRestart ==
    c_pc \in {"scan", "optimize"} =>
        \A k \in 1..(IF c_pc = "scan" THEN c_i - 1 ELSE Len(c_discovered)) :
            LET p == c_discovered[k]
            IN  (\E r \in c_db : r.file_path = p /\ r.status # "completed")
                    => p \in c_selected

\* C4 (SpecV1): failure isolation.  When a run in which the OCR call raised
\* for some item has ended, every other item was processed (given to the OCR
\* call, or reported by stage 2), and the report has a section for every item
\* whose OCR output the run obtained.
C4_FailureIsolation ==
    LET obtained == {v1_ocr_log[k].relative_path :
                        k \in {j \in DOMAIN v1_ocr_log : v1_ocr_log[j].run = runs}}
        reported == {v1_errors[k] : k \in DOMAIN v1_errors}
    IN  (outcome \notin {"none", "running"} /\ v1_attempted \ obtained # {})
            => /\ \A p \in Paths : p \in v1_attempted \/ p \in reported
               /\ \A p \in obtained :
                     /\ v1_report # None
                     /\ \E k \in DOMAIN v1_report : v1_report[k] = p

\* C5 (SpecV1): every per-item failure is recorded.  When a run has ended,
\* each item for which the hash, the copy or the OCR call raised has a ledger
\* entry with status failed and a non-empty error message.
C5_FailuresRecorded ==
    LET obtained == {v1_ocr_log[k].relative_path :
                        k \in {j \in DOMAIN v1_ocr_log : v1_ocr_log[j].run = runs}}
        raised == {v1_errors[k] : k \in DOMAIN v1_errors} \ obtained
    IN  outcome \notin {"none", "running"} =>
            \A p \in raised :
                \E r \in v1_table : /\ r.file_path = p
                                    /\ r.status = "failed"
                                    /\ r.error_message \notin {None, ""}

\* C6 (SpecV1): at-most-once OCR.  No two successful OCR calls were made for
\* the same content hash.
C6_AtMostOnceOCR ==
    \A j, k \in DOMAIN v1_ocr_log :
        v1_ocr_log[j].file_hash = v1_ocr_log[k].file_hash => j = k

\* C7 (SpecData): the relative path is a unique key.  The ledger holds at
\* most one entry per path.
C7_PathIsUniqueKey ==
    \A r1, r2 \in d_db : r1.original_file_path = r2.original_file_path => r1 = r2

\* C8 (SpecCore): a completed entry has a non-empty cached result location.
C8_CompletedHasResult ==
    \A r \in c_db : r.status = "completed" => r.vision_json_path # EmptyPath

\* C9 (SpecCore): an error message is set only on failed entries.
C9_ErrorOnlyOnFailed ==
    \A r \in c_db : r.error_message # None => r.status = "failed"

\* C10 (SpecCore): status lifecycle.  Every step of the ledger creates
\* entries with status pending only, and moves an entry to completed or
\* failed only from processing.
C10_Lifecycle ==
    [][\A r \in c_db' :
          /\ (~\E o \in c_db : o.id = r.id) => r.status = "pending"
          /\ \A o \in c_db :
                (o.id = r.id /\ o.status # r.status
                    /\ r.status \in {"completed", "failed"})
                    => o.status = "processing"]_vars

\* C11 (SpecText): a cached OCR result that is absent or cannot be parsed is a
\* cache miss.  An image whose ledger row carries an OCR result path and is not
\* failed, and whose result file is absent or unparsable, still gets its
\* section of the report once its analysis has ended: it is not left out.
C11_CacheMissNotOmitted ==
    (t_pc \in {"done", "skipped"} /\ has_ocr_data(t_image)
        /\ t_image.cache \in {"absent", "malformed"})
        => t_pc = "done"

\* C12 (SpecText): the furigana gate.  Once the paragraphs are classified, a
\* paragraph is in the furigana list if and only if (a) the median width of
\* its symbols is below 0.8 of the median width of the page's symbols, (b)
\* every one of its characters is hiragana or katakana, and (c) none of its
\* words has more than 6 symbols.
C12_FuriganaGate ==
    t_pc \in {"process", "section", "done"} =>
        LET widths_of(symbols) == [k \in DOMAIN symbols |-> symbols[k].width]
            page_symbols == join([i \in DOMAIN t_paragraphs |-> symbols_of(t_paragraphs[i])])
            page_median  == median(widths_of(page_symbols))
            gate(i) ==
                LET symbols == symbols_of(t_paragraphs[i])
                    own     == median(widths_of(symbols))
                IN  /\ symbols # << >>
                    /\ 5 * own.twice < 4 * page_median.twice
                    /\ \A k \in DOMAIN symbols :
                            _is_hiragana(symbols[k].text) \/ _is_katakana(symbols[k].text)
                    /\ \A w \in DOMAIN t_paragraphs[i].words :
                            Len(t_paragraphs[i].words[w]) <= 6
        IN  \A i \in DOMAIN t_paragraphs :
                (\E k \in DOMAIN t_furigana : t_furigana[k] = i) <=> gate(i)

\* C13 (SpecText): a page of exactly one paragraph never has that paragraph
\* in the furigana list, whatever its text, width and height: once the
\* paragraphs are classified, the furigana list is empty and the regular list
\* holds the paragraph.
C13_SingleParagraphRegular ==
    (t_pc \in {"process", "section", "done"} /\ Len(t_paragraphs) = 1)
        => (t_furigana = << >> /\ t_regular = << 1 >>)

\* a lone paragraph of two hiragana in a measurable box has been classified
C13_Witness ==
    /\ t_pc = "process"
    /\ Len(t_paragraphs) = 1
    /\ Found(t_paragraphs[1].bounding_box)
    /\ t_paragraphs[1].bounding_box[1].width > 0
    /\ t_paragraphs[1].bounding_box[1].height > 0
    /\ _extract_plain_text(t_paragraphs[1]) = << 12354, 12354 >>
    /\ t_regular = << 1 >>

C15_Partition ==
    t_pc \in {"process", "section", "done"} =>
        LET both == t_regular \o t_furigana
        IN  \A i \in DOMAIN t_paragraphs :
                Cardinality({k \in DOMAIN both : both[k] = i}) = 1

\* C16 (SpecText): within one image section the transcript has one line per
\* paragraph, in the paragraphs' original reading order, however they are
\* classified.  Stated for the pages on which every paragraph has a bounding
\* box and at least one symbol, so that none is dropped or rendered empty:
\* after the header line, line k of the section is the line of paragraph k.
C16_ReadingOrder ==
    (/\ t_pc = "done"
     /\ \A i \in DOMAIN t_paragraphs :
            Found(t_paragraphs[i].bounding_box) /\ strip(_process_paragraph_text(t_paragraphs[i])) # << >>)
        => /\ Len(t_lines) = Len(t_paragraphs) + 1
           /\ \A k \in DOMAIN t_paragraphs : t_lines[k + 1].paragraph = k

\* C17 (SpecText): classify is total and returns the first bucket, in
\* descending threshold order, whose threshold the confidence meets or
\* exceeds.  Every symbol rendered got exactly one level: high from 0.90,
\* medium from 0.80 to below 0.90, low from 0.60 to below 0.80, very_low for
\* every other value; and that level is the first member of Confidence whose
\* threshold the confidence reaches, VERY_LOW when none is reached.
C17_Classify ==
    \A k \in DOMAIN t_symbols :
        LET c     == t_symbols[k].confidence
            level == t_symbols[k].level
            met   == {j \in DOMAIN Confidence : c >= Confidence[j].threshold}
            first == IF met = {} THEN "VERY_LOW"
                     ELSE Confidence[CHOOSE j \in met : \A i \in met : j <= i].name
        IN  /\ level \in {"high", "medium", "low", "very_low"}
            /\ level = "high" <=> c >= 9000
            /\ level = "medium" <=> (8000 <= c /\ c < 9000)
            /\ level = "low" <=> (6000 <= c /\ c < 8000)
            /\ level = "very_low" <=> c < 6000
            /\ first = CASE level = "high" -> "HIGH"
                         [] level = "medium" -> "MEDIUM"
                         [] level = "low" -> "LOW"
                         [] OTHER -> "VERY_LOW"

\* a paragraph of a symbol of confidence 0.90 and one of confidence 0.5999
\* has been rendered
C17_Witness ==
    /\ t_pc = "section"
    /\ Len(t_symbols) = 2
    /\ t_symbols[1].symbol.confidence = Float(9000) /\ t_symbols[1].level = "high"
    /\ t_symbols[2].symbol.confidence = Float(5999) /\ t_symbols[2].level = "very_low"

C19_Annotate ==
    LET marker_of(level) ==
            CASE level = "medium" -> "[?]"
              [] level = "low" -> "[??]"
              [] level = "very_low" -> "[???]"
              [] OTHER -> ""
        piece(m) == [kind |-> "marker", marker |-> m, ch |-> 0]
        wrapped(symbol, level) ==
            IF level = "high" THEN << Char(symbol.text) >>
            ELSE << piece(marker_of(level)), Char(symbol.text), piece(marker_of(level)) >>
        member(level) ==
            CHOOSE j \in DOMAIN Confidence :
                Confidence[j].name = CASE level = "high" -> "HIGH"
                                       [] level = "medium" -> "MEDIUM"
                                       [] level = "low" -> "LOW"
                                       [] OTHER -> "VERY_LOW"
        level_of(symbol) == _get_confidence_level(confidence_of(symbol))
        concatenation(words) ==
            join([w \in DOMAIN words |->
                    join([j \in DOMAIN words[w] |->
                            wrapped(words[w][j], level_of(words[w][j]))])])
        texts == t_processed.regular \o t_processed.furigana
    IN  /\ \A k \in DOMAIN t_symbols :
                /\ t_symbols[k].text = wrapped(t_symbols[k].symbol, t_symbols[k].level)
                /\ t_symbols[k].text = mark_char(<< Char(t_symbols[k].symbol.text) >>,
                                                 Confidence[member(t_symbols[k].level)].marker)
        /\ \A k \in DOMAIN texts :
                texts[k].text = concatenation(t_paragraphs[texts[k].paragraph].words)

\* a paragraph of two words, a symbol of confidence 0.80 and a symbol of
\* confidence 1.0, has been rendered as [?], the first text, [?], the second
\* text
C19_Witness ==
    /\ t_pc = "section"
    /\ Len(t_paragraphs) = 1
    /\ Len(t_paragraphs[1].words) = 2
    /\ t_paragraphs[1].words[1][1].confidence = Float(8000)
    /\ t_paragraphs[1].words[2][1].confidence = Float(10000)
    /\ Len(t_processed.regular) = 1
    /\ Len(t_processed.regular[1].text) = 4
    /\ t_processed.regular[1].text[1].marker = "[?]"
    /\ t_processed.regular[1].text[3].marker = "[?]"
    /\ t_processed.regular[1].text[4] = Char(t_paragraphs[1].words[2][1].text)

C25_TerminalHasProcessedAt ==
    \A r \in c_db : r.status \in {"completed", "failed"} => r.processed_at # None

\* C27 (SpecVision): VisionProcessor.process_images changes no image's
\* status and handles no storage.  No image's status or bytes ever differ
\* from those it was given with; and when process_images has returned, the
\* list returned holds the images given, in the same order and number, the
\* response folder and the database are as before, and of each image only
\* vision_response may have changed: it is the response of the call that
\* returned, None for the call that raised, and untouched for a skipped image.
C27_ProcessImagesFrame ==
    /\ \A k \in DOMAIN g_images :
            /\ g_images[k].image_model.status = g_given[k].image_model.status
            /\ g_images[k].image_bytes = g_given[k].image_bytes
    /\ g_pc \in {"save", "done"} => g_processed = [k \in DOMAIN g_given |-> k]
    /\ (g_pc = "save" /\ g_i = 1) =>
            /\ g_db = {g_given[k].image_model : k \in DOMAIN g_given}
            /\ \A p \in ResponsePaths : g_folder[p] = << >>
            /\ Len(g_calls) = Len(g_given)
            /\ \A k \in DOMAIN g_given :
                    g_images[k] =
                        [g_given[k] EXCEPT !.vision_response =
                            CASE g_calls[k] = "ok" -> << g_given[k].image_bytes >>
                              [] g_calls[k] = "raises" -> << >>
                              [] OTHER -> g_given[k].vision_response]

\* process_images has returned from a list of two images: the call for the
\* first raised, the call for the second returned
C27_Witness ==
    /\ g_pc = "save"
    /\ g_i = 1
    /\ g_calls = << "raises", "ok" >>
    /\ g_images[1].vision_response = << >>
    /\ g_images[2].vision_response # << >>
    /\ g_images[1].image_model.status = "completed"

\* C24 (SpecVision): distinct relative paths get distinct cached results.  In
\* no state do two ledger entries of different relative paths name the same
\* OCR result file.
C24_DistinctResultFiles ==
    \A r1 \in g_db : \A r2 \in g_db :
        (/\ r1.original_file_path # r2.original_file_path
         /\ r1.vision_json_path # EmptyPath
         /\ r2.vision_json_path # EmptyPath)
            => r1.vision_json_path # r2.vision_json_path

\* C21: formatter determinism.  Any two calls of the same formatting
\* operation on the same input object (the list of lines given to
\* build_image_section, the list of results given to the report builders,
\* neither touched by anyone else in between) return byte-identical output.
C21_FormatterDeterminism ==
    (\A k \in DOMAIN f_calls : f_calls[k].op # "generate_text_output")
        => \A i, j \in DOMAIN f_calls :
                f_calls[i].op = f_calls[j].op => f_calls[i].output = f_calls[j].output

\* C22: in every report the image sections are those of the results given,
\* in the order given (the formatter keeps the order of its input); the
\* report of the batch run, whose caller sorts first, has them in ascending
\* order of relative path; and the count in the header is the number of
\* sections in the report.
C22_ReportOrder ==
    \A k \in DOMAIN f_calls :
        LET c == f_calls[k]
            is_header(l) == l.tag = "=== Image"
            is_count(l) == l.tag = "Total Images Processed"
            headers == SelectSeq(c.output, is_header)
            counts == SelectSeq(c.output, is_count)
        IN  c.op # "build_image_section"
                => /\ c.op = "generate_text_output"
                        => \A i, j \in DOMAIN c.given :
                                i < j => path_rank(c.given[i]) < path_rank(c.given[j])
                   /\ [i \in DOMAIN headers |-> headers[i].path] = c.given
                   /\ Len(counts) = 1
                   /\ counts[1].n = Len(headers)

\* C23: re-queuing the failed items changes exactly the rows of status
\* failed to pending and leaves every other row as it was: the ledger after
\* a call is the ledger before it with failed replaced by pending (so that
\* a second call changes nothing more).
C23_RequeueFailed ==
    \A k \in DOMAIN r_log :
        r_log[k].after = {IF r.status = "failed" THEN [r EXCEPT !.status = "pending"] ELSE r :
                            r \in r_log[k].before}

\* C28: the image handed to the OCR collaborator for an item is the copy of
\* that item's current file: its content is the content that was hashed for
\* the item in this run, never a copy written earlier from other content.
C28_OcrOnCurrentBytes ==
    \A k \in DOMAIN v1_ocr_log :
        calculate_file_hash(v1_ocr_log[k].image) = v1_ocr_log[k].file_hash

\* C26: one item at a time.  Between an item's ledger lookup and its ledger
\* write no step of another item occurs, so at any moment at most one item
\* has been looked up and is still awaiting its write.
C26_OneItemAtATime ==
    LET awaiting_write ==
            IF c_pc \in {"scan", "optimize"} THEN Len(c_to_process)
            ELSE IF c_pc = "save" THEN Len(c_processed) - c_i + 1
            ELSE 0
    IN  awaiting_write <= 1

\* C30: the size-reduction loop terminates for every image.  The quality
\* starts at 95 and goes down by 5 per iteration; the loop is left as soon
\* as an encoding is within max_size_mb or was made at quality 30; so there
\* are at most 14 iterations, no encoding at a quality below 30, and a call
\* that has entered the loop returns.
C30_LoopTerminates ==
    /\ [](/\ q_iterations <= 14
          /\ \A quality \in q_encoded : quality >= 30
          /\ q_pc = "loop" => /\ q_quality = 95 - 5 * q_iterations
                              /\ q_iterations > 0 => q_size_mb > q_max_size_mb
          /\ q_pc = "returned" => /\ q_quality = 95 - 5 * (q_iterations - 1)
                                  /\ q_size_mb <= q_max_size_mb \/ q_quality = 30)
    /\ (q_pc = "loop" ~> q_pc = "returned")

\* an image that never fits: the loop has run 14 times, down to quality 30
C30_Witness ==
    /\ q_pc = "returned"
    /\ q_iterations = 14
    /\ q_encoded = {95 - 5 * k : k \in 0 .. 13}
    /\ q_size_mb > q_max_size_mb

\* C29: when two runs interleave their ledger lookup and ledger write for
\* the same relative path, then once both have ended neither has failed,
\* and the ledger holds exactly one row for the path, whose hash and status
\* are those of the image one of the runs wrote (or the stored ones, if
\* neither had anything to write).
C29_ConcurrentWriters ==
    (\A w \in Workers : w_pc[w] \in {"returned", "raised"})
        => /\ \A w \in Workers : w_pc[w] # "raised"
           /\ Cardinality({r \in w_db : r.file_path = the_path}) = 1
           /\ \A r \in w_db :
                \/ \E w \in Workers :
                        /\ w_image[w] # << >>
                        /\ r.file_hash = w_image[w][1].file_hash
                        /\ r.status = w_image[w][1].status
                \/ /\ \A w \in Workers : w_image[w] = << >>
                   /\ r = stored_image

====
